---- MODULE Spec2Model ----
(***************************************************************************)
(* Dynamic-pricing decision engine of the ML service:                      *)
(*   ml/service/main.py            pricing_optimize_v1                     *)
(*   ml/modules/dynamic_pricing/serve_models.py                            *)
(*                                 load_xgb, load_dqn, predict_with_models *)
(*   ml/modules/competitors/serve.py   get_competitor_price                *)
(*                                                                         *)
(* Python floats are modelled as exact rationals [n, d] in lowest terms    *)
(* (binary rounding error of float arithmetic is not modelled).  round(x,2)*)
(* rounds to the nearest hundredth; a value exactly half way between two   *)
(* hundredths is rounded by Python according to the binary representation  *)
(* of the float, so its direction is left open (tie_up): it is a function  *)
(* of the inputs that the rationals do not determine, drawn once per       *)
(* service process (float_tie_up).                                         *)
(***************************************************************************)
EXTENDS Integers, Sequences, FiniteSets, TLC

(***************************************************************************)
(* Exact rational arithmetic                                               *)
(***************************************************************************)
Abs(x) == IF x < 0 THEN -x ELSE x

RECURSIVE GCD(_, _)
GCD(a, b) == IF b = 0 THEN a ELSE GCD(b, a % b)

\* the fraction n/d (d # 0) in lowest terms with a positive denominator
Q(n, d) ==
    LET g == GCD(Abs(n), Abs(d))
        s == IF d < 0 THEN -1 ELSE 1
    IN  [n |-> s * (n \div g), d |-> s * (d \div g)]

QInt(k) == [n |-> k, d |-> 1]

QAdd(a, b) ==
    LET g == GCD(a.d, b.d)
    IN  Q(a.n * (b.d \div g) + b.n * (a.d \div g), (a.d \div g) * b.d)

QNeg(a) == [n |-> -a.n, d |-> a.d]

QSub(a, b) == QAdd(a, QNeg(b))

QMul(a, b) ==
    LET g1 == GCD(Abs(a.n), b.d)
        g2 == GCD(Abs(b.n), a.d)
    IN  Q((a.n \div g1) * (b.n \div g2), (a.d \div g2) * (b.d \div g1))

\* a / b, b # 0
QDiv(a, b) == QMul(a, Q(b.d, b.n))

QLt(a, b) ==
    LET g == GCD(a.d, b.d)
    IN  a.n * (b.d \div g) < b.n * (a.d \div g)

QLe(a, b) == ~QLt(b, a)

QAbs(a) == [n |-> Abs(a.n), d |-> a.d]

\* Python max(a, b): b replaces a only when b > a
QMax(a, b) == IF QLt(a, b) THEN b ELSE a

\* Python min(a, b): b replaces a only when b < a
QMin(a, b) == IF QLt(b, a) THEN b ELSE a

\* floor of n/d for d > 0
FloorDiv(n, d) == IF n >= 0 THEN n \div d ELSE -((-n + d - 1) \div d)

\* round(x, 2): the nearest multiple of 1/100; an exact tie goes up iff tie_up
Round2(a, tie_up) ==
    LET g   == GCD(100, a.d)
        num == a.n * (100 \div g)
        den == a.d \div g
        f   == FloorDiv(num, den)
        r   == num - f * den
        k   == IF 2 * r < den THEN f
               ELSE IF 2 * r > den THEN f + 1
               ELSE IF tie_up THEN f + 1 ELSE f
    IN  Q(k, 100)

(***************************************************************************)
(* Pricing arithmetic of pricing_optimize_v1                               *)
(***************************************************************************)
\* str.upper() on the grade strings that requests carry
Upper(g) ==
    CASE g = "a" -> "A"
      [] g = "b" -> "B"
      [] g = "c" -> "C"
      [] g = "x" -> "X"
      [] OTHER   -> g

\* grade = (req.quality_grade or "B").upper()
NormGrade(quality_grade) == Upper(IF quality_grade = "" THEN "B" ELSE quality_grade)

\* grade_markup_map.get(grade, 1.5)
Markup(grade) ==
    CASE grade = "A" -> Q(20, 10)
      [] grade = "B" -> Q(16, 10)
      [] grade = "C" -> Q(13, 10)
      [] OTHER       -> Q(15, 10)

\* quality_factor_map.get(grade, 0.85)
QualityFactor(grade) ==
    CASE grade = "A" -> Q(100, 100)
      [] grade = "B" -> Q(85, 100)
      [] grade = "C" -> Q(70, 100)
      [] OTHER       -> Q(85, 100)

IsPos(a) == a.n > 0

\* a base price that forgets the minimum margin
BasePriceNoMargin(unit_cost, grade, min_margin) ==
    IF IsPos(unit_cost) THEN QMul(unit_cost, Markup(grade)) ELSE QInt(1)

\* base_price: the marked-up unit cost, floored by the minimum margin; 1.0
\* when the unit cost is not positive
BasePrice(unit_cost, grade, min_margin) ==
    LET b0 == IF IsPos(unit_cost) THEN QMul(unit_cost, Markup(grade)) ELSE QInt(1)
    IN  IF IsPos(unit_cost)
        THEN QMax(b0, QMul(unit_cost, QAdd(QInt(1), min_margin)))
        ELSE b0

\* an expiry factor whose upper threshold includes 48 hours
ExpiryFactorAt48(expiry_hours) ==
    IF expiry_hours >= 48 THEN Q(10, 10)
    ELSE IF expiry_hours > 24 THEN Q(7, 10) ELSE Q(5, 10)

\* expiry_factor
ExpiryFactor(expiry_hours) ==
    IF expiry_hours > 48 THEN Q(10, 10)
    ELSE IF expiry_hours > 24 THEN Q(7, 10) ELSE Q(5, 10)

ExpectedDemand(demand_baseline, grade, expiry_hours) ==
    QMax(QInt(0),
         QMul(QMul(demand_baseline, QualityFactor(grade)), ExpiryFactor(expiry_hours)))

MinAllowedPrice(base_price, unit_cost, min_margin, max_discount) ==
    LET min_price_discount == QMul(base_price, QSub(QInt(1), max_discount))
        min_price_margin   == IF IsPos(unit_cost)
                              THEN QMul(unit_cost, QAdd(QInt(1), min_margin))
                              ELSE QInt(0)
    IN  QMax(QMax(min_price_discount, min_price_margin), Q(1, 10))

\* the relative steps, in generation order
Steps == << Q(-10, 100), Q(-5, 100), Q(0, 100), Q(5, 100), Q(10, 100) >>

\* a candidate generator that forgets the floor
KeepCandidate(p, min_allowed_price) == p

\* the clamp of one raw candidate to the price floor
ClampCandidate(p, min_allowed_price) == QMax(p, min_allowed_price)

Candidates(base_price, min_allowed_price) ==
    [i \in 1..Len(Steps) |->
        ClampCandidate(QMul(base_price, QAdd(QInt(1), Steps[i])), min_allowed_price)]

\* Python max(list) of a non-empty list
RECURSIVE MaxFrom(_, _, _)
MaxFrom(xs, i, m) ==
    IF i > Len(xs) THEN m ELSE MaxFrom(xs, i + 1, QMax(m, xs[i]))

MaxOf(xs) == MaxFrom(xs, 2, xs[1])

\* a waste factor whose upper threshold includes 48 hours
WastePenaltyAt48(expiry_hours) ==
    IF expiry_hours >= 48 THEN Q(2, 10)
    ELSE IF expiry_hours > 24 THEN Q(5, 10) ELSE Q(8, 10)

WastePenaltyFactor(expiry_hours) ==
    IF expiry_hours > 48 THEN Q(2, 10)
    ELSE IF expiry_hours > 24 THEN Q(5, 10) ELSE Q(8, 10)

\* a reward without the satisfaction bonus
RewardNoBonus(p, c) ==
    LET elasticity == QMul(Q(1, 10), QDiv(QSub(c.competitor_price, p), c.base_price))
        demand_adj == QMax(QInt(0), QMul(c.expected_demand, QAdd(QInt(1), elasticity)))
        sold       == QMin(QInt(c.inventory), demand_adj)
        revenue    == QMul(sold, p)
        leftover   == QMax(QInt(0), QSub(QInt(c.inventory), sold))
        waste_cost == QMul(QMul(leftover, c.unit_cost), WastePenaltyFactor(c.expiry_hours))
    IN  QSub(revenue, waste_cost)

\* the reward of price p in context c (the body of the search loop)
Reward(p, c) ==
    LET elasticity == QMul(Q(1, 10), QDiv(QSub(c.competitor_price, p), c.base_price))
        demand_adj == QMax(QInt(0), QMul(c.expected_demand, QAdd(QInt(1), elasticity)))
        sold       == QMin(QInt(c.inventory), demand_adj)
        revenue    == QMul(sold, p)
        leftover   == QMax(QInt(0), QSub(QInt(c.inventory), sold))
        waste_cost == QMul(QMul(leftover, c.unit_cost), WastePenaltyFactor(c.expiry_hours))
        satisfaction_bonus ==
            IF QLt(QDiv(QAbs(QSub(p, c.competitor_price)), c.base_price), Q(3, 100))
            THEN QMul(Q(5, 100), revenue) ELSE QInt(0)
    IN  QAdd(QSub(revenue, waste_cost), satisfaction_bonus)

\* float("-inf"), the initial best_reward; and a rational-typed None
NegInf == [n |-> -1, d |-> 0]
NoneQ  == [n |-> 0, d |-> 0]
IsNone(q) == q.d = 0

\* a search loop that lets a later equal reward replace the best
RewardTies(reward, best_reward) ==
    IF best_reward = NegInf THEN TRUE ELSE QLe(best_reward, reward)

\* the test `reward > best_reward` of the search loop
RewardBeats(reward, best_reward) ==
    IF best_reward = NegInf THEN TRUE ELSE QLt(best_reward, reward)

\* the search loop over the candidates from index i on
RECURSIVE SearchFrom(_, _, _, _, _)
SearchFrom(cands, c, i, best_price, best_reward) ==
    IF i > Len(cands)
    THEN [best_price |-> best_price, best_reward |-> best_reward]
    ELSE LET reward == Reward(cands[i], c)
         IN  IF RewardBeats(reward, best_reward)
             THEN SearchFrom(cands, c, i + 1, cands[i], reward)
             ELSE SearchFrom(cands, c, i + 1, best_price, best_reward)

\* best_price = candidates[0]; for p in candidates: ...
Search(cands, c) == SearchFrom(cands, c, 1, cands[1], NegInf)

\* a clamp that forgets the richest candidate
ClampFloorOnly(model_price, min_allowed_price, cands) ==
    QMax(model_price, min_allowed_price)

\* mp = max(mp, min_allowed_price); best_price = min(max(candidates), mp)
ClampModelPrice(model_price, min_allowed_price, cands) ==
    QMin(MaxOf(cands), QMax(model_price, min_allowed_price))

\* a nudge that is not clamped again
NudgeUnclamped(best_price, weight, c) ==
    QAdd(best_price, QMul(weight, QSub(c.competitor_price, best_price)))

\* best_price = max(min_allowed_price, min(max(candidates), best_price + adjust))
Nudge(best_price, weight, c) ==
    LET adjust == QMul(weight, QSub(c.competitor_price, best_price))
    IN  QMax(c.min_allowed_price, QMin(MaxOf(c.candidates), QAdd(best_price, adjust)))

\* a competitor adjustment that raises every price far below the competitor,
\* whatever the inventory
CompetitorAdjustAnyStock(best_price, c) ==
    IF IsPos(c.competitor_price)
    THEN LET ratio == QDiv(best_price, c.competitor_price)
         IN  IF QLt(Q(105, 100), ratio) /\ (c.inventory > 30 \/ c.expiry_hours <= 24)
             THEN [price |-> Nudge(best_price, Q(3, 10), c), adjusted |-> TRUE]
             ELSE IF QLt(ratio, Q(95, 100))
             THEN [price |-> Nudge(best_price, Q(2, 10), c), adjusted |-> TRUE]
             ELSE [price |-> best_price, adjusted |-> FALSE]
    ELSE [price |-> best_price, adjusted |-> FALSE]

\* a competitor adjustment that already counts 30 units as inventory pressure
CompetitorAdjustAt30(best_price, c) ==
    IF IsPos(c.competitor_price)
    THEN LET ratio == QDiv(best_price, c.competitor_price)
         IN  IF QLt(Q(105, 100), ratio) /\ (c.inventory >= 30 \/ c.expiry_hours <= 24)
             THEN [price |-> Nudge(best_price, Q(3, 10), c), adjusted |-> TRUE]
             ELSE IF QLt(ratio, Q(95, 100)) /\ c.inventory < 10
             THEN [price |-> Nudge(best_price, Q(2, 10), c), adjusted |-> TRUE]
             ELSE [price |-> best_price, adjusted |-> FALSE]
    ELSE [price |-> best_price, adjusted |-> FALSE]

\* the competitor adjustment of the selected price
CompetitorAdjust(best_price, c) ==
    IF IsPos(c.competitor_price)
    THEN LET ratio == QDiv(best_price, c.competitor_price)
         IN  IF QLt(Q(105, 100), ratio) /\ (c.inventory > 30 \/ c.expiry_hours <= 24)
             THEN [price |-> Nudge(best_price, Q(3, 10), c), adjusted |-> TRUE]
             ELSE IF QLt(ratio, Q(95, 100)) /\ c.inventory < 10
             THEN [price |-> Nudge(best_price, Q(2, 10), c), adjusted |-> TRUE]
             ELSE [price |-> best_price, adjusted |-> FALSE]
    ELSE [price |-> best_price, adjusted |-> FALSE]

\* a bucket assignment that ignores the toggle
BucketIgnoresToggle(ab_enabled, h) == IF h % 2 = 0 THEN "B" ELSE "A"

\* bucket = "B" if (hash(req.product_id) % 2 == 0) else "A", when A/B is enabled
Bucket(ab_enabled, h) ==
    IF ab_enabled THEN (IF h % 2 = 0 THEN "B" ELSE "A") ELSE "A"

\* if bucket == "B": best_price *= 0.98
ABPrice(best_price, bucket) ==
    IF bucket = "B" THEN QMul(best_price, Q(98, 100)) ELSE best_price

\* a reason that lets model use outrank the competitor adjustment
ReasonModelFirst(used_model, competitor_adjusted, recommended, base_price) ==
    IF used_model THEN "Model-driven price"
    ELSE IF competitor_adjusted THEN "Competitor-adjusted heuristic price"
    ELSE IF QLt(recommended, base_price) THEN "Expiry-driven discount"
    ELSE "Demand/margin-driven markup"

\* the reason string of the response
Reason(used_model, competitor_adjusted, recommended, base_price) ==
    IF competitor_adjusted
    THEN (IF used_model THEN "Competitor-adjusted model price"
                        ELSE "Competitor-adjusted heuristic price")
    ELSE IF used_model THEN "Model-driven price"
    ELSE IF QLt(recommended, base_price) THEN "Expiry-driven discount"
    ELSE "Demand/margin-driven markup"

\* the part of pricing_optimize_v1 after predict_with_models returned model_price
\* (NoneQ for None), for context c, toggle ab_enabled and hash value h
Decision(c, model_price, ab_enabled, h, tie_up) ==
    LET used_model == ~IsNone(model_price)
        found      == IF used_model THEN NoneQ ELSE Search(c.candidates, c)
        selected   == IF used_model
                      THEN ClampModelPrice(model_price, c.min_allowed_price, c.candidates)
                      ELSE found.best_price
        adj        == CompetitorAdjust(selected, c)
        best_reward == IF used_model THEN Reward(adj.price, c) ELSE found.best_reward
        bucket     == Bucket(ab_enabled, h)
        final      == ABPrice(adj.price, bucket)
        recommended == Round2(final, tie_up)
        base_sold  == QMin(QInt(c.inventory), c.expected_demand)
        base_rev   == QMul(base_sold, c.base_price)
        final_elasticity ==
            QMul(Q(1, 10), QDiv(QSub(c.competitor_price, recommended), c.base_price))
        expected_demand_out ==
            QMax(QInt(0), QMul(c.expected_demand, QAdd(QInt(1), final_elasticity)))
    IN  [ used_model          |-> used_model,
          selected            |-> selected,
          competitor_adjusted |-> adj.adjusted,
          best_price          |-> adj.price,
          best_reward         |-> best_reward,
          bucket              |-> bucket,
          final               |-> final,
          recommended_price   |-> recommended,
          price_adjustment_reason |->
              Reason(used_model, adj.adjusted, recommended, c.base_price),
          expected_demand     |-> Round2(expected_demand_out, tie_up),
          revenue_impact      |-> Round2(QSub(best_reward, base_rev), tie_up) ]

(***************************************************************************)
(* Collaborators: catalog, competitor price, environment                   *)
(***************************************************************************)
Products == {"p0", "p1", "p2"}

\* the product catalog: unitCost per productId, NoneQ for a product not in it
Catalog == [p \in Products |->
              CASE p = "p1" -> Q(1, 2)
                [] p = "p2" -> Q(2, 1)
                [] OTHER    -> NoneQ]

\* float(entry.get("unitCost", 0.0)) with entry = catalog.get(product_id, {})
UnitCostOf(product_id) ==
    IF IsNone(Catalog[product_id]) THEN QInt(0) ELSE Catalog[product_id]

\* what the HTTP competitor feed does for one request
HttpOutcomes ==
    { [kind |-> k, val |-> NoneQ] : k \in {"unset", "timeout", "error", "malformed"} }
    \cup { [kind |-> "price", val |-> Q(5, 100)] }

\* _fetch_http: a float, or None on an unset URL or any failure
FetchHttp(o) == IF o.kind \in {"price", "number"} THEN o.val ELSE NoneQ

\* a JSON value that float() rejects
NotANumber == [n |-> 1, d |-> 0]

\* what can be at COMP_FILE_PATH: nothing, a file that cannot be opened, one
\* that is not JSON, a JSON value that is not an object, or an object (here
\* with a numeric entry for p1 and p2 and a non-numeric one for p0)
CompFileStates ==
    { [kind |-> k, entries |-> [p \in Products |-> NoneQ]] :
        k \in {"absent", "unreadable", "not_json", "not_dict"} }
    \cup { [kind |-> "dict",
            entries |-> [p \in Products |->
                           IF p = "p1" THEN Q(3, 1)
                           ELSE IF p = "p2" THEN Q(41, 10) ELSE NotANumber]] }

\* _load_from_file on an empty cache: the entries float() accepts; {} when the
\* file is absent, unreadable, not JSON or not an object
LoadFromFile(file) ==
    [p \in Products |->
        IF file.kind = "dict" /\ file.entries[p].d # 0 THEN file.entries[p] ELSE NoneQ]

\* what the competitor file can parse to
CompFiles == { LoadFromFile(file) : file \in CompFileStates }

\* a resolution that returns each source as it is
GetCompetitorPriceUnfloored(http, file_entry, base_price, factor) ==
    IF ~IsNone(http) THEN http
    ELSE IF ~IsNone(file_entry) THEN file_entry
    ELSE QMul(base_price, factor)

\* a resolution that goes from a failed feed straight to the heuristic
GetCompetitorPriceNoFile(http, file_entry, base_price, factor) ==
    IF ~IsNone(http) THEN QMax(Q(1, 10), http)
    ELSE QMax(Q(1, 10), QMul(base_price, factor))

\* get_competitor_price, given the feed's answer and the file's entry
GetCompetitorPrice(http, file_entry, base_price, factor) ==
    IF ~IsNone(http) THEN QMax(Q(1, 10), http)
    ELSE IF ~IsNone(file_entry) THEN QMax(Q(1, 10), file_entry)
    ELSE QMax(Q(1, 10), QMul(base_price, factor))

\* which branch of get_competitor_price produced the price
CompetitorSource(http, file_entry) ==
    IF ~IsNone(http) THEN "http"
    ELSE IF ~IsNone(file_entry) THEN "file" ELSE "fallback"

\* the environment knobs read by the handler, with their defaults
DefaultEnv ==
    [min_margin |-> Q(15, 100), max_discount |-> Q(30, 100),
     ab_enabled |-> TRUE, factor |-> Q(98, 100),
     procurement_min |-> 0, procurement_max |-> 0]

\* PRICING_AB_ENABLED=false; PRICING_MIN_MARGIN=0.5
NoAbEnv       == [DefaultEnv EXCEPT !.ab_enabled = FALSE]
HighMarginEnv == [DefaultEnv EXCEPT !.min_margin = Q(50, 100)]

Grades        == {"A", "B", "c", "X"}
Inventories   == {5, 20, 30}
ExpiryHours   == {24, 48, 72}
\* forecast_product(...)[0]["quantity"]: 10.0 without a demand model, else >= 0
DemandBaselines == {QInt(0), QInt(10)}

WorkedRequest ==
    [product_id |-> "p2", current_inventory |-> 100,
     quality_grade |-> "A", time_to_expiry_hours |-> 72]

Requests ==
    [product_id : Products, current_inventory : Inventories,
     quality_grade : Grades, time_to_expiry_hours : ExpiryHours]
      \cup {WorkedRequest}

\* lines 357-385 of the handler: everything computed before predict_with_models
Context(req, env, demand_baseline, http, file_entry) ==
    LET unit_cost   == UnitCostOf(req.product_id)
        grade       == NormGrade(req.quality_grade)
        base_price  == BasePrice(unit_cost, grade, env.min_margin)
        expiry      == req.time_to_expiry_hours
        min_allowed == MinAllowedPrice(base_price, unit_cost, env.min_margin, env.max_discount)
    IN  [ product_id        |-> req.product_id,
          grade             |-> grade,
          unit_cost         |-> unit_cost,
          base_price        |-> base_price,
          inventory         |-> req.current_inventory,
          expiry_hours      |-> expiry,
          demand_baseline   |-> demand_baseline,
          expected_demand   |-> ExpectedDemand(demand_baseline, grade, expiry),
          http_price        |-> http,
          file_price        |-> file_entry,
          competitor_price  |-> GetCompetitorPrice(http, file_entry, base_price, env.factor),
          competitor_source |-> CompetitorSource(http, file_entry),
          min_allowed_price |-> min_allowed,
          candidates        |-> Candidates(base_price, min_allowed) ]

NoContext ==
    [ product_id |-> "", grade |-> "", unit_cost |-> NoneQ, base_price |-> NoneQ,
      inventory |-> 0, expiry_hours |-> 0, demand_baseline |-> NoneQ,
      expected_demand |-> NoneQ, http_price |-> NoneQ, file_price |-> NoneQ,
      competitor_price |-> NoneQ, competitor_source |-> "", min_allowed_price |-> NoneQ, candidates |-> << >> ]

NoDecision ==
    [ used_model |-> FALSE, selected |-> NoneQ, competitor_adjusted |-> FALSE,
      best_price |-> NoneQ, best_reward |-> NoneQ, bucket |-> "", final |-> NoneQ,
      recommended_price |-> NoneQ, price_adjustment_reason |-> "",
      expected_demand |-> NoneQ, revenue_impact |-> NoneQ ]

(***************************************************************************)
(* Learned-model artifacts (serve_models.py)                               *)
(***************************************************************************)
\* What a model file holds.  kind: "absent" (no file), "partial" (a training
\* run is writing it), "corrupt" (loading raises), "bad" (loads, but
\* inference raises), "ok".  out: the price an "ok" regressor predicts.
XgbFile(ver, kind, out) == [ver |-> ver, kind |-> kind, out |-> out]
NoXgbFile == XgbFile(0, "absent", NoneQ)
\* _xgb_model = None
NoXgb == XgbFile(0, "none", NoneQ)

\* idx: the action index (1..5 for Python's 0..4) an "ok" policy's argmax yields
DqnFile(ver, kind, idx) == [ver |-> ver, kind |-> kind, idx |-> idx]
NoDqnFile == DqnFile(0, "absent", 0)

\* a policy network object: the artifact its weights came from (ver 0: freshly
\* built, random weights) and whether eval() was called on it
Qnet(ver, kind, idx, weights, eval) ==
    [ver |-> ver, kind |-> kind, idx |-> idx, weights |-> weights, eval |-> eval]
\* _dqn_state = None
NoDqn == Qnet(0, "none", 0, FALSE, FALSE)

\* the prices regressors of the model predict
XgbOutputs == {QInt(-1), QInt(0), Q(3, 2), QInt(1000)}

\* grade_map.get(quality_grade.upper(), 1): the regressor's grade ordinal
XgbGradeOrdinal(grade) ==
    CASE grade = "A" -> 2
      [] grade = "B" -> 1
      [] grade = "C" -> 0
      [] OTHER       -> 1

\* feat: the regressor's feature vector for context c
XgbFeatures(c) ==
    << c.base_price, QInt(XgbGradeOrdinal(c.grade)), QInt(c.inventory),
       c.expected_demand, c.competitor_price >>

\* 1.0 if grade is "A" else 0.85 if it is "B" else 0.7: the quality entry of
\* the policy's state
DqnQuality(grade) ==
    IF grade = "A" THEN Q(100, 100)
    ELSE IF grade = "B" THEN Q(85, 100) ELSE Q(70, 100)

\* state: the policy's state vector for context c
DqnState(c) ==
    << QInt(c.inventory), c.expected_demand, DqnQuality(c.grade),
       IF IsPos(c.base_price) THEN QDiv(c.competitor_price, c.base_price) ELSE QInt(1),
       QInt(c.expiry_hours) >>

\* actions = [-0.10, -0.05, 0.0, 0.05, 0.10]; pred = base_price * (1.0 + action)
DqnPrice(base_price, idx) == QMul(base_price, QAdd(QInt(1), Steps[idx]))

(***************************************************************************)
(* State                                                                   *)
(***************************************************************************)
Threads == {1, 2}

\* the number of training runs that rewrite one artifact file
MaxVersion == 2

(***************************************************************************)
(* Budget-aware procurement: demand_forecast, /ml/demand-forecast          *)
(*                                                                         *)
(* The budget test compares sums of float products with the budget.  Where *)
(* the two are equal as decimals the outcome is decided by the binary      *)
(* rounding of the products: a float value is kept as the exact rational q *)
(* and the side of q it sits on (ulp: -1 below, 0 exact, 1 above).  A      *)
(* product with a unit cost that is no binary fraction is inexact; its     *)
(* side is float_tie_up's.                                                 *)
(***************************************************************************)
RECURSIVE IsPow2(_)
IsPow2(d) == IF d = 1 THEN TRUE ELSE IF d % 2 = 0 THEN IsPow2(d \div 2) ELSE FALSE

\* a rational that a binary float holds exactly
IsDyadic(a) == IsPow2(a.d)

\* math.floor and math.ceil
FloorQ(a) == FloorDiv(a.n, a.d)
CeilQ(a)  == -FloorDiv(-a.n, a.d)

Fl(q, ulp) == [q |-> q, ulp |-> ulp]
NoFl == Fl(NoneQ, 0)

\* float x > b for a float x and a budget b
FlGt(x, b) == QLt(b, x.q) \/ (x.q = b /\ x.ulp > 0)

\* recommended: the shortfall over the lead time, then the min and max clamps
Recommended(total_demand, stock, procurement_min, procurement_max) ==
    LET need == CeilQ(QSub(total_demand, QInt(stock)))
        r0   == IF need > 0 THEN need ELSE 0
        r1   == IF procurement_min > 0 /\ procurement_min > r0 THEN procurement_min ELSE r0
    IN  IF procurement_max > 0 /\ procurement_max < r1 THEN procurement_max ELSE r1

\* unit_cost: from the request, else from the catalog, else 0.0
ForecastUnitCost(pid, unit_costs) ==
    IF ~IsNone(unit_costs[pid]) THEN unit_costs[pid] ELSE UnitCostOf(pid)

\* sum(float(item.get("totalCost") or 0.0) for item in forecasts), exactly
RECURSIVE SumCost(_, _, _)
SumCost(recs, ucs, i) ==
    IF i > Len(recs) THEN QInt(0)
    ELSE QAdd(IF IsPos(ucs[i]) THEN QMul(QInt(recs[i]), ucs[i]) ELSE QInt(0),
              SumCost(recs, ucs, i + 1))

\* the same sum as the float the code holds
TotalCost(recs, ucs, tie_up) ==
    LET inexact == \E i \in 1..Len(recs) :
                      IsPos(ucs[i]) /\ recs[i] > 0 /\ ~IsDyadic(ucs[i])
    IN  Fl(SumCost(recs, ucs, 1), IF inexact THEN (IF tie_up THEN 1 ELSE -1) ELSE 0)

\* new_rec = int(max(0, floor(rec * scale))) with scale = budget / total_cost,
\* then the max clamp.  When total_cost exceeds the budget by rounding only,
\* scale is the float next below 1.0 and rec * scale falls below rec; when
\* rec * scale is a whole number k as a fraction and scale is inexact, the
\* float product sits on one side of k.
ScaleRec(rec, budget, total_cost, procurement_max, tie_up) ==
    LET scale == QDiv(budget, total_cost.q)
        x     == QMul(QInt(rec), scale)
        n0    == IF total_cost.q = budget
                 THEN rec - 1
                 ELSE IF x.d = 1 /\ x.n >= 1 /\ ~IsDyadic(scale)
                      THEN (IF tie_up THEN x.n ELSE x.n - 1)
                      ELSE FloorQ(x)
        n1    == IF n0 > 0 THEN n0 ELSE 0
    IN  IF procurement_max > 0 /\ procurement_max < n1 THEN procurement_max ELSE n1

NoForecastReq ==
    [productIds |-> << >>, total_demand |-> NoneQ,
     stockOnHand |-> [p \in Products |-> 0],
     unitCosts |-> [p \in Products |-> NoneQ], budget |-> NoneQ]

NoForecastResp ==
    [recommendedProcurement |-> << >>, unitCost |-> << >>, scaled |-> FALSE,
     total_cost |-> NoFl, budget |-> NoneQ, budget_remaining |-> NoFl]

\* the body of demand_forecast for a request whose products are each forecast
\* total_demand units over the lead time
ForecastResponse(req, procurement_min, procurement_max, tie_up) ==
    LET n    == Len(req.productIds)
        ucs  == [i \in 1..n |-> ForecastUnitCost(req.productIds[i], req.unitCosts)]
        recs == [i \in 1..n |->
                   Recommended(req.total_demand, req.stockOnHand[req.productIds[i]],
                               procurement_min, procurement_max)]
        total_cost == TotalCost(recs, ucs, tie_up)
        scaled == /\ ~IsNone(req.budget)
                  /\ IsPos(total_cost.q)
                  /\ FlGt(total_cost, req.budget)
        new_recs == [i \in 1..n |->
                       ScaleRec(recs[i], req.budget, total_cost, procurement_max, tie_up)]
        out_recs == IF scaled THEN new_recs ELSE recs
        out_cost == TotalCost(out_recs, ucs, tie_up)
    IN  [recommendedProcurement |-> out_recs,
         unitCost |-> ucs,
         scaled |-> scaled,
         total_cost |-> out_cost,
         budget |-> req.budget,
         budget_remaining |->
             IF IsNone(req.budget) THEN NoFl
             ELSE Fl(QSub(req.budget, out_cost.q), -out_cost.ulp)]

\* the requests sent to the endpoint: forecast_product gives 10.0 a day without
\* a demand model (30 over the default lead time of 3 days)
ForecastProductLists ==
    { << "p1" >>, << "p2" >>, << "p1", "p2" >>, << "p0", "p1" >>, << "p2", "p2" >> }
ForecastDemands == {QInt(30), Q(83, 2)}
ForecastStocks ==
    { [p \in Products |-> 0], [p \in Products |-> IF p = "p1" THEN 35 ELSE 12] }
ForecastUnitCosts ==
    { [p \in Products |-> NoneQ],
      [p \in Products |-> IF p = "p1" THEN Q(1213, 100) ELSE NoneQ],
      [p \in Products |-> IF p = "p1" THEN Q(11, 10) ELSE QInt(-1)] }
ForecastBudgets == {NoneQ, QInt(0), QInt(20), Q(1213, 10), QInt(1000)}
ForecastRequests ==
    [productIds : ForecastProductLists, total_demand : ForecastDemands,
     stockOnHand : ForecastStocks, unitCosts : ForecastUnitCosts,
     budget : ForecastBudgets]

\* PROCUREMENT_MIN / PROCUREMENT_MAX settings of the service process
ProcurementEnvs ==
    { [DefaultEnv EXCEPT !.procurement_min = b[1], !.procurement_max = b[2]] :
        b \in { << 0, 0 >>, << 5, 0 >>, << 0, 20 >>, << 25, 20 >>, << -1, -1 >> } }


(***************************************************************************)
(* The legacy optimizer: dynamic_pricing/serve.py, /ml/pricing/optimize    *)
(***************************************************************************)
\* dynamic_pricing.pkl (file: what its model predicts, NoneQ when absent) and
\* the _model global (cached: NoneQ for None)
LegacyModel(file, cached) == [file |-> file, cached |-> cached]
NoLegacyModel == LegacyModel(NoneQ, NoneQ)

\* load_model: the file is read once, on the first call that finds it
LoadModel(m) ==
    IF IsNone(m.cached) /\ ~IsNone(m.file) THEN LegacyModel(m.file, m.file) ELSE m

NoLegacyReq ==
    [base_price |-> NoneQ, competitor_price |-> NoneQ, demand_index |-> NoneQ,
     stock_level |-> 0, ab_bucket |-> ""]

NoLegacyResp ==
    [recommended_price |-> NoneQ, bucket |-> "", min_price |-> NoneQ, clamped |-> NoneQ]

\* recommend_price: heuristic or model price, clamped to the maximum discount,
\* then the A/B factor, then rounded
RecommendPrice(base_price, competitor_price, demand_index, stock_level, ab_bucket, model, max_discount, ab_enabled, tie_up) ==
    LET discount  == QMul(QAdd(Q(5, 100), QMul(demand_index, Q(1, 10))),
                          IF stock_level > 50 THEN QInt(1) ELSE Q(1, 2))
        rec       == IF IsNone(model)
                     THEN QMax(Q(1, 10),
                               QMul(QMul(base_price, QAdd(QInt(1), demand_index)),
                                    QSub(QInt(1), discount)))
                     ELSE model
        min_price == QMax(Q(1, 10), QMul(base_price, QSub(QInt(1), max_discount)))
        clamped   == QMax(rec, min_price)
        ab        == IF ab_enabled /\ Upper(ab_bucket) = "B"
                     THEN QMul(clamped, Q(98, 100)) ELSE clamped
    IN  [recommended_price |-> Round2(ab, tie_up), bucket |-> ab_bucket,
         min_price |-> min_price, clamped |-> clamped]

\* the requests sent to the legacy optimizer; abBucket missing means "A"
LegacyBasePrices   == {QInt(1), QInt(4), Q(1, 20)}
LegacyDemandIndex  == {Q(-1, 2), QInt(0), Q(1, 2)}
LegacyStockLevels  == {10, 51}
LegacyBuckets      == {"", "A", "B", "b"}
LegacyRequests ==
    [base_price : LegacyBasePrices, competitor_price : {Q(41, 10)},
     demand_index : LegacyDemandIndex, stock_level : LegacyStockLevels,
     ab_bucket : LegacyBuckets]

\* what a deployed dynamic_pricing.pkl predicts
LegacyPredictions == {QInt(0), Q(7, 2), QInt(100)}

VARIABLES
    env,          \* the environment knobs of the service process
    str_hash,     \* hash(product_id) in this process
    float_tie_up, \* round(x, 2) is a function of the float x; whether a value on
                  \* a decimal tie sits above or below it in binary is fixed by
                  \* the arithmetic, and drawn once here
    comp_cache,   \* _comp_cache of competitors/serve.py
    xgb_file,     \* ml/models/dynamic_pricing_xgb.pkl
    dqn_file,     \* ml/models/dynamic_pricing_dqn.pt
    xgb_model,    \* _xgb_model
    dqn_state,    \* _dqn_state
    pc,           \* per request thread: where it is in the handler
    ctx,          \* per thread: the values computed before predict_with_models
    xgb,          \* per thread: the regressor that load_xgb holds or returned
    qnet,         \* per thread: the network that load_dqn holds or returned
    model_price,  \* per thread: what predict_with_models returns (NoneQ: None)
    source,       \* per thread: the strategy that produced model_price
    tried,        \* per thread: the strategies consulted so far, in order
    resp,         \* per thread: the decision being returned
    legacy_model, \* ml/models/dynamic_pricing.pkl and _model of dynamic_pricing/serve.py
    legacy_req,   \* the last request to /ml/pricing/optimize
    legacy_resp,  \* and the response to it
    forecast_req, \* the last request to /ml/demand-forecast
    forecast_resp \* and the response to it

vars == << env, str_hash, float_tie_up, comp_cache, xgb_file, dqn_file, xgb_model, dqn_state,
           pc, ctx, xgb, qnet, model_price, source, tried, resp,
           legacy_model, legacy_req, legacy_resp, forecast_req, forecast_resp >>

process_vars == << env, str_hash, float_tie_up >>
legacy_vars  == << legacy_model, legacy_req, legacy_resp >>
forecast_vars == << forecast_req, forecast_resp >>
file_vars    == << xgb_file, dqn_file >>
cache_vars   == << xgb_model, dqn_state >>

NoCompCache == [loaded |-> FALSE, data |-> [p \in Products |-> NoneQ]]

InitThreads ==
    /\ pc          = [t \in Threads |-> "idle"]
    /\ ctx         = [t \in Threads |-> NoContext]
    /\ xgb         = [t \in Threads |-> NoXgb]
    /\ qnet        = [t \in Threads |-> NoDqn]
    /\ model_price = [t \in Threads |-> NoneQ]
    /\ source      = [t \in Threads |-> "none"]
    /\ tried       = [t \in Threads |-> << >>]
    /\ resp        = [t \in Threads |-> NoDecision]

\* no request reaches the demand-forecast endpoint
InitForecastIdle ==
    /\ forecast_req = NoForecastReq
    /\ forecast_resp = NoForecastResp

\* no request reaches the legacy optimizer
InitLegacyIdle ==
    /\ legacy_model = NoLegacyModel
    /\ legacy_req = NoLegacyReq
    /\ legacy_resp = NoLegacyResp
    /\ InitForecastIdle

\* the service processes of the model: environment, hash seed and the
\* artifact files deployed with the process
Process(e, h, x, d) == [env |-> e, str_hash |-> h, xgb_file |-> x, dqn_file |-> d]

SeedA == [p \in Products |-> IF p = "p1" THEN 7 ELSE 4]
SeedB == [p \in Products |-> IF p = "p1" THEN -6 ELSE -3]

Processes ==
    { Process(DefaultEnv, h, NoXgbFile, NoDqnFile) : h \in {SeedA, SeedB} }
    \cup { Process(NoAbEnv, SeedB, NoXgbFile, NoDqnFile),
           Process(HighMarginEnv, SeedA, NoXgbFile, NoDqnFile) }
    \cup { Process(DefaultEnv, SeedA, XgbFile(1, "ok", o), NoDqnFile) : o \in XgbOutputs }
    \cup { Process(DefaultEnv, SeedB, XgbFile(1, "ok", QInt(-1)), NoDqnFile),
           Process(DefaultEnv, SeedA, XgbFile(1, "corrupt", NoneQ), DqnFile(1, "ok", 1)),
           Process(DefaultEnv, SeedB, XgbFile(1, "bad", NoneQ), DqnFile(1, "ok", 5)),
           Process(DefaultEnv, SeedA, XgbFile(1, "bad", NoneQ), DqnFile(1, "bad", 0)),
           Process(DefaultEnv, SeedA, NoXgbFile, DqnFile(1, "corrupt", 0)) }

Init ==
    /\ \E p \in Processes :
         /\ env = p.env
         /\ str_hash = p.str_hash
         /\ xgb_file = p.xgb_file
         /\ dqn_file = p.dqn_file
    /\ float_tie_up \in BOOLEAN
    /\ comp_cache = NoCompCache
    /\ xgb_model = NoXgb
    /\ dqn_state = NoDqn
    /\ InitThreads
    /\ InitLegacyIdle

(***************************************************************************)
(* pricing_optimize_v1, up to the call of predict_with_models              *)
(***************************************************************************)
Start(t, reqs, baselines, https) ==
    /\ pc[t] = "idle"
    /\ \E req \in reqs, demand_baseline \in baselines, o \in https :
         LET http == FetchHttp(o)
         IN  \E f \in (IF ~IsNone(http) \/ comp_cache.loaded
                       THEN {comp_cache.data} ELSE CompFiles) :
               /\ comp_cache' = IF IsNone(http)
                                THEN [loaded |-> TRUE, data |-> f] ELSE comp_cache
               /\ ctx' = [ctx EXCEPT ![t] =
                            Context(req, env, demand_baseline, http,
                                    IF IsNone(http) THEN f[req.product_id] ELSE NoneQ)]
    /\ pc' = [pc EXCEPT ![t] = "load_xgb"]
    /\ UNCHANGED << process_vars, legacy_vars, forecast_vars, file_vars, cache_vars, xgb, qnet, model_price,
                    source, tried, resp >>

(***************************************************************************)
(* predict_with_models, load_xgb, load_dqn                                 *)
(***************************************************************************)
\* where a request is once an exception left the handler (a 500 response)
Raised == "error"

\* where control goes when an exception is caught (None is returned or the
\* next strategy is tried)
XgbLoadExcept    == "load_dqn"
XgbPredictExcept == "load_dqn"
DqnLoadExcept    == "decide"
DqnPredictExcept == "decide"

\* xgb = load_xgb(): the cache test
LoadXgbCached(t) ==
    /\ pc[t] = "load_xgb"
    /\ tried' = [tried EXCEPT ![t] = Append(@, "xgb")]
    /\ IF xgb_model # NoXgb
       THEN /\ xgb' = [xgb EXCEPT ![t] = xgb_model]
            /\ pc' = [pc EXCEPT ![t] = "xgb_predict"]
       ELSE /\ xgb' = xgb
            /\ pc' = [pc EXCEPT ![t] = "xgb_exists"]
    /\ UNCHANGED << process_vars, legacy_vars, forecast_vars, comp_cache, file_vars, cache_vars, ctx, qnet,
                    model_price, source, resp >>

\* if not os.path.exists(XGB_MODEL_PATH): return None
LoadXgbExists(t) ==
    /\ pc[t] = "xgb_exists"
    /\ pc' = [pc EXCEPT ![t] = IF xgb_file.kind = "absent" THEN "load_dqn" ELSE "xgb_read"]
    /\ UNCHANGED << process_vars, legacy_vars, forecast_vars, comp_cache, file_vars, cache_vars, ctx, xgb, qnet,
                    model_price, source, tried, resp >>

\* joblib.load(XGB_MODEL_PATH): reads the file as it is now, or raises
LoadXgbRead(t) ==
    /\ pc[t] = "xgb_read"
    /\ IF xgb_file.kind \in {"ok", "bad"}
       THEN /\ xgb' = [xgb EXCEPT ![t] = xgb_file]
            /\ pc' = [pc EXCEPT ![t] = "xgb_assign"]
       ELSE /\ xgb' = xgb
            /\ pc' = [pc EXCEPT ![t] = XgbLoadExcept]
    /\ UNCHANGED << process_vars, legacy_vars, forecast_vars, comp_cache, file_vars, cache_vars, ctx, qnet,
                    model_price, source, tried, resp >>

\* _xgb_model = <the loaded object>; return _xgb_model
LoadXgbAssign(t) ==
    /\ pc[t] = "xgb_assign"
    /\ xgb_model' = xgb[t]
    /\ pc' = [pc EXCEPT ![t] = "xgb_predict"]
    /\ UNCHANGED << process_vars, legacy_vars, forecast_vars, comp_cache, file_vars, dqn_state, ctx, xgb, qnet,
                    model_price, source, tried, resp >>

\* a predict_with_models that goes on to the policy after the regressor priced
XgbPredictNoReturn(t) ==
    /\ pc[t] = "xgb_predict"
    /\ IF xgb[t].kind = "ok"
       THEN /\ model_price' = [model_price EXCEPT ![t] = xgb[t].out]
            /\ source' = [source EXCEPT ![t] = "xgb"]
       ELSE UNCHANGED << model_price, source >>
    /\ pc' = [pc EXCEPT ![t] = "load_dqn"]
    /\ UNCHANGED << process_vars, legacy_vars, forecast_vars, comp_cache, file_vars, cache_vars, ctx, xgb, qnet,
                    tried, resp >>

\* pred = float(xgb.predict([feat])[0]); return pred
XgbPredict(t) ==
    /\ pc[t] = "xgb_predict"
    /\ IF xgb[t].kind = "ok"
       THEN /\ model_price' = [model_price EXCEPT ![t] = xgb[t].out]
            /\ source' = [source EXCEPT ![t] = "xgb"]
            /\ pc' = [pc EXCEPT ![t] = "decide"]
       ELSE /\ UNCHANGED << model_price, source >>
            /\ pc' = [pc EXCEPT ![t] = XgbPredictExcept]
    /\ UNCHANGED << process_vars, legacy_vars, forecast_vars, comp_cache, file_vars, cache_vars, ctx, xgb, qnet,
                    tried, resp >>

\* dqn = load_dqn(): the cache test
LoadDqnCached(t) ==
    /\ pc[t] = "load_dqn"
    /\ tried' = [tried EXCEPT ![t] = Append(@, "dqn")]
    /\ IF dqn_state # NoDqn
       THEN /\ qnet' = [qnet EXCEPT ![t] = dqn_state]
            /\ pc' = [pc EXCEPT ![t] = "dqn_predict"]
       ELSE /\ qnet' = qnet
            /\ pc' = [pc EXCEPT ![t] = "dqn_exists"]
    /\ UNCHANGED << process_vars, legacy_vars, forecast_vars, comp_cache, file_vars, cache_vars, ctx, xgb,
                    model_price, source, resp >>

\* if not os.path.exists(DQN_MODEL_PATH): return None
LoadDqnExists(t) ==
    /\ pc[t] = "dqn_exists"
    /\ pc' = [pc EXCEPT ![t] = IF dqn_file.kind = "absent" THEN "decide" ELSE "dqn_build"]
    /\ UNCHANGED << process_vars, legacy_vars, forecast_vars, comp_cache, file_vars, cache_vars, ctx, xgb, qnet,
                    model_price, source, tried, resp >>

\* a load_dqn that puts the network in the cache as soon as it is built
LoadDqnBuildPublished(t) ==
    /\ pc[t] = "dqn_build"
    /\ qnet' = [qnet EXCEPT ![t] = Qnet(0, "fresh", 0, FALSE, FALSE)]
    /\ dqn_state' = Qnet(0, "fresh", 0, FALSE, FALSE)
    /\ pc' = [pc EXCEPT ![t] = "dqn_weights"]
    /\ UNCHANGED << process_vars, legacy_vars, forecast_vars, comp_cache, file_vars, xgb_model, ctx, xgb,
                    model_price, source, tried, resp >>

\* qnet = nn.Sequential(...): a fresh network held in a local
LoadDqnBuild(t) ==
    /\ pc[t] = "dqn_build"
    /\ qnet' = [qnet EXCEPT ![t] = Qnet(0, "fresh", 0, FALSE, FALSE)]
    /\ pc' = [pc EXCEPT ![t] = "dqn_weights"]
    /\ UNCHANGED << process_vars, legacy_vars, forecast_vars, comp_cache, file_vars, cache_vars, ctx, xgb,
                    model_price, source, tried, resp >>

\* qnet.load_state_dict(torch.load(DQN_MODEL_PATH)): reads the file as it is now
LoadDqnWeights(t) ==
    /\ pc[t] = "dqn_weights"
    /\ IF dqn_file.kind \in {"ok", "bad"}
       THEN /\ qnet' = [qnet EXCEPT ![t] =
                          Qnet(dqn_file.ver, dqn_file.kind, dqn_file.idx, TRUE, FALSE)]
            /\ pc' = [pc EXCEPT ![t] = "dqn_eval"]
       ELSE /\ qnet' = [qnet EXCEPT ![t] = NoDqn]
            /\ pc' = [pc EXCEPT ![t] = DqnLoadExcept]
    /\ UNCHANGED << process_vars, legacy_vars, forecast_vars, comp_cache, file_vars, cache_vars, ctx, xgb,
                    model_price, source, tried, resp >>

\* qnet.eval()
LoadDqnEval(t) ==
    /\ pc[t] = "dqn_eval"
    /\ qnet' = [qnet EXCEPT ![t].eval = TRUE]
    /\ pc' = [pc EXCEPT ![t] = "dqn_assign"]
    /\ UNCHANGED << process_vars, legacy_vars, forecast_vars, comp_cache, file_vars, cache_vars, ctx, xgb,
                    model_price, source, tried, resp >>

\* _dqn_state = qnet; return _dqn_state
LoadDqnAssign(t) ==
    /\ pc[t] = "dqn_assign"
    /\ dqn_state' = qnet[t]
    /\ pc' = [pc EXCEPT ![t] = "dqn_predict"]
    /\ UNCHANGED << process_vars, legacy_vars, forecast_vars, comp_cache, file_vars, xgb_model, ctx, xgb, qnet,
                    model_price, source, tried, resp >>

\* idx = argmax(dqn(state)); pred = base_price * (1.0 + actions[idx]); return pred
DqnPredict(t) ==
    /\ pc[t] = "dqn_predict"
    /\ IF qnet[t].kind = "ok"
       THEN /\ model_price' = [model_price EXCEPT ![t] =
                                 DqnPrice(ctx[t].base_price, qnet[t].idx)]
            /\ source' = [source EXCEPT ![t] = "dqn"]
            /\ pc' = [pc EXCEPT ![t] = "decide"]
       ELSE /\ UNCHANGED << model_price, source >>
            /\ pc' = [pc EXCEPT ![t] = DqnPredictExcept]
    /\ UNCHANGED << process_vars, legacy_vars, forecast_vars, comp_cache, file_vars, cache_vars, ctx, xgb, qnet,
                    tried, resp >>

(***************************************************************************)
(* pricing_optimize_v1, after predict_with_models returned                 *)
(***************************************************************************)
\* a handler that buckets by a hash of the whole request instead of the
\* product id
DecideBucketByRequest(t) ==
    /\ pc[t] = "decide"
    /\ resp' = [resp EXCEPT ![t] =
                 Decision(ctx[t], model_price[t], env.ab_enabled,
                          str_hash[ctx[t].product_id] + ctx[t].inventory, float_tie_up)]
    /\ tried' = [tried EXCEPT ![t] =
                   IF IsNone(model_price[t]) THEN Append(@, "search") ELSE @]
    /\ pc' = [pc EXCEPT ![t] = "done"]
    /\ UNCHANGED << process_vars, legacy_vars, forecast_vars, comp_cache, file_vars, cache_vars, ctx, xgb, qnet,
                    model_price, source >>

\* a handler whose bucket depends on the request thread serving the call
DecideBucketByThread(t) ==
    /\ pc[t] = "decide"
    /\ resp' = [resp EXCEPT ![t] =
                 Decision(ctx[t], model_price[t], env.ab_enabled,
                          str_hash[ctx[t].product_id] + t, float_tie_up)]
    /\ tried' = [tried EXCEPT ![t] =
                   IF IsNone(model_price[t]) THEN Append(@, "search") ELSE @]
    /\ pc' = [pc EXCEPT ![t] = "done"]
    /\ UNCHANGED << process_vars, legacy_vars, forecast_vars, comp_cache, file_vars, cache_vars, ctx, xgb, qnet,
                    model_price, source >>

\* lines 399-481 of the handler
Decide(t) ==
    /\ pc[t] = "decide"
    /\ resp' = [resp EXCEPT ![t] =
                 Decision(ctx[t], model_price[t], env.ab_enabled,
                          str_hash[ctx[t].product_id], float_tie_up)]
    /\ tried' = [tried EXCEPT ![t] =
                   IF IsNone(model_price[t]) THEN Append(@, "search") ELSE @]
    /\ pc' = [pc EXCEPT ![t] = "done"]
    /\ UNCHANGED << process_vars, legacy_vars, forecast_vars, comp_cache, file_vars, cache_vars, ctx, xgb, qnet,
                    model_price, source >>

\* the response is sent; the thread's locals die
Finish(t) ==
    /\ pc[t] = "done"
    /\ pc'          = [pc EXCEPT ![t] = "idle"]
    /\ ctx'         = [ctx EXCEPT ![t] = NoContext]
    /\ xgb'         = [xgb EXCEPT ![t] = NoXgb]
    /\ qnet'        = [qnet EXCEPT ![t] = NoDqn]
    /\ model_price' = [model_price EXCEPT ![t] = NoneQ]
    /\ source'      = [source EXCEPT ![t] = "none"]
    /\ tried'       = [tried EXCEPT ![t] = << >>]
    /\ resp'        = [resp EXCEPT ![t] = NoDecision]
    /\ UNCHANGED << process_vars, legacy_vars, forecast_vars, comp_cache, file_vars, cache_vars >>

Handler(t) ==
    \/ LoadXgbCached(t) \/ LoadXgbExists(t) \/ LoadXgbRead(t) \/ LoadXgbAssign(t)
    \/ XgbPredict(t)
    \/ LoadDqnCached(t) \/ LoadDqnExists(t) \/ LoadDqnBuild(t) \/ LoadDqnWeights(t)
    \/ LoadDqnEval(t) \/ LoadDqnAssign(t) \/ DqnPredict(t)
    \/ Decide(t) \/ Finish(t)

\* one service process serving one request at a time
Next ==
    \/ Start(1, Requests, DemandBaselines, HttpOutcomes)
    \/ Handler(1)

Spec == Init /\ [][Next]_vars

(***************************************************************************)
(* Training runs: train_xgb.py and train_dqn.py rewrite the artifact files *)
(* in place while the service runs                                         *)
(***************************************************************************)
\* what a retrained regressor predicts, and the action a retrained policy picks
TrainedXgbOutput == Q(3, 2)
TrainedDqnIdx == 2

\* joblib.dump(model, MODEL_PATH) opens the file for writing ...
TrainXgbBegin ==
    /\ xgb_file.kind # "partial"
    /\ xgb_file.ver < MaxVersion
    /\ xgb_file' = XgbFile(xgb_file.ver + 1, "partial", NoneQ)
    /\ UNCHANGED << process_vars, legacy_vars, forecast_vars, comp_cache, dqn_file, cache_vars, pc, ctx, xgb, qnet,
                    model_price, source, tried, resp >>

\* ... and the dump completes
TrainXgbEnd ==
    /\ xgb_file.kind = "partial"
    /\ xgb_file' = XgbFile(xgb_file.ver, "ok", TrainedXgbOutput)
    /\ UNCHANGED << process_vars, legacy_vars, forecast_vars, comp_cache, dqn_file, cache_vars, pc, ctx, xgb, qnet,
                    model_price, source, tried, resp >>

\* torch.save(qnet.state_dict(), MODEL_PATH) opens the file for writing ...
TrainDqnBegin ==
    /\ dqn_file.kind # "partial"
    /\ dqn_file.ver < MaxVersion
    /\ dqn_file' = DqnFile(dqn_file.ver + 1, "partial", 0)
    /\ UNCHANGED << process_vars, legacy_vars, forecast_vars, comp_cache, xgb_file, cache_vars, pc, ctx, xgb, qnet,
                    model_price, source, tried, resp >>

\* ... and the save completes
TrainDqnEnd ==
    /\ dqn_file.kind = "partial"
    /\ dqn_file' = DqnFile(dqn_file.ver, "ok", TrainedDqnIdx)
    /\ UNCHANGED << process_vars, legacy_vars, forecast_vars, comp_cache, xgb_file, cache_vars, pc, ctx, xgb, qnet,
                    model_price, source, tried, resp >>

(***************************************************************************)
(* The service under load: request threads interleave at every step of     *)
(* load_xgb / load_dqn, and training runs rewrite the artifacts            *)
(***************************************************************************)
ConcRequests == {WorkedRequest}
ConcBaselines == {QInt(10)}
ConcHttp == {[kind |-> "unset", val |-> NoneQ]}

ConcInit ==
    /\ env = DefaultEnv
    /\ str_hash = SeedA
    /\ float_tie_up = FALSE
    /\ xgb_file \in {NoXgbFile, XgbFile(1, "ok", QInt(-1))}
    /\ dqn_file \in {NoDqnFile, DqnFile(1, "ok", 1)}
    /\ comp_cache = NoCompCache
    /\ xgb_model = NoXgb
    /\ dqn_state = NoDqn
    /\ InitThreads
    /\ InitLegacyIdle

ConcNext ==
    \/ \E t \in Threads : Start(t, ConcRequests, ConcBaselines, ConcHttp)
    \/ \E t \in Threads : Handler(t)
    \/ TrainXgbBegin \/ TrainXgbEnd \/ TrainDqnBegin \/ TrainDqnEnd

SpecConc == ConcInit /\ [][ConcNext]_vars

(***************************************************************************)
(* One process answering requests for the same products side by side: a   *)
(* response stays in view while the other thread serves further requests   *)
(***************************************************************************)
PairRequests ==
    { WorkedRequest,
      [product_id |-> "p2", current_inventory |-> 5,
       quality_grade |-> "c", time_to_expiry_hours |-> 24],
      [product_id |-> "p1", current_inventory |-> 20,
       quality_grade |-> "B", time_to_expiry_hours |-> 48],
      [product_id |-> "p1", current_inventory |-> 5,
       quality_grade |-> "A", time_to_expiry_hours |-> 72] }

PairProcesses ==
    { Process(DefaultEnv, SeedA, XgbFile(1, "ok", QInt(-1)), NoDqnFile),
      Process(DefaultEnv, SeedB, XgbFile(1, "bad", NoneQ), DqnFile(1, "ok", 5)),
      Process(NoAbEnv, SeedB, NoXgbFile, NoDqnFile) }

PairInit ==
    /\ \E p \in PairProcesses :
         /\ env = p.env
         /\ str_hash = p.str_hash
         /\ xgb_file = p.xgb_file
         /\ dqn_file = p.dqn_file
    /\ float_tie_up \in BOOLEAN
    /\ comp_cache = NoCompCache
    /\ xgb_model = NoXgb
    /\ dqn_state = NoDqn
    /\ InitThreads
    /\ InitLegacyIdle

PairNext ==
    \/ \E t \in Threads : Start(t, PairRequests, ConcBaselines, ConcHttp)
    \/ \E t \in Threads : Handler(t)

SpecPair == PairInit /\ [][PairNext]_vars

(***************************************************************************)
(* The reward as the training code computes it                             *)
(***************************************************************************)
\* PricingEnv.step: the price an action stands for
EnvStepPrice(action, base_price, unit_cost) ==
    QMax(QMax(QMul(base_price, QAdd(QInt(1), action)), QMul(unit_cost, Q(115, 100))),
         QMul(base_price, Q(70, 100)))

\* a training environment that charges one waste factor whatever the expiry
EnvWastePenaltyFlat(expiry_h) == Q(5, 10)

\* PricingEnv.step: waste_penalty
EnvWastePenalty(expiry_h) ==
    IF expiry_h > 48 THEN Q(2, 10)
    ELSE IF expiry_h > 24 THEN Q(5, 10) ELSE Q(8, 10)

\* PricingEnv.step: the reward of a price in state (inv, demand, quality,
\* competitor, expiry_h), competitor being the ratio to the base price; sold
\* is not clamped at zero here
EnvStepReward(price, base_price, unit_cost, inv, demand, quality, competitor, expiry_h) ==
    LET elasticity == QMul(Q(1, 10),
                           QDiv(QSub(QMul(base_price, competitor), price), base_price))
        expected   == QMax(QInt(0),
                           QMul(QMul(demand, quality),
                                IF expiry_h > 48 THEN QInt(1)
                                ELSE IF expiry_h > 24 THEN Q(7, 10) ELSE Q(5, 10)))
        sold       == QMin(QInt(inv), QMul(expected, QAdd(QInt(1), elasticity)))
        revenue    == QMul(sold, price)
        waste_cost == QMul(QMul(QMax(QInt(0), QSub(QInt(inv), sold)), unit_cost),
                           EnvWastePenalty(expiry_h))
        satisfaction_bonus ==
            IF QLt(QDiv(QAbs(QSub(price, QMul(base_price, competitor))), base_price),
                   Q(3, 100))
            THEN QMul(Q(5, 100), revenue) ELSE QInt(0)
    IN  QAdd(QSub(revenue, waste_cost), satisfaction_bonus)

\* _generate_synthetic: the reward of candidate p in the target loop
SyntheticReward(p, base_price, unit_cost, stock_level, demand, competitor_avg, expiry_hours) ==
    LET elasticity == QMul(Q(1, 10), QDiv(QSub(competitor_avg, p), base_price))
        demand_adj == QMax(QInt(0), QMul(demand, QAdd(QInt(1), elasticity)))
        sold       == QMin(QInt(stock_level), demand_adj)
        revenue    == QMul(sold, p)
        waste_penalty == IF expiry_hours > 48 THEN Q(2, 10)
                         ELSE IF expiry_hours > 24 THEN Q(5, 10) ELSE Q(8, 10)
        waste_cost == QMul(QMul(QMax(QInt(0), QSub(QInt(stock_level), sold)), unit_cost),
                           waste_penalty)
        satisfaction_bonus ==
            IF QLt(QDiv(QAbs(QSub(p, competitor_avg)), base_price), Q(3, 100))
            THEN QMul(Q(5, 100), revenue) ELSE QInt(0)
    IN  QAdd(QSub(revenue, waste_cost), satisfaction_bonus)

(***************************************************************************)
(* The endpoint /ml/demand-forecast                                        *)
(***************************************************************************)
\* demand_forecast: one request, served start to end
DemandForecast ==
    /\ \E req \in ForecastRequests :
         /\ forecast_req' = req
         /\ forecast_resp' = ForecastResponse(req, env.procurement_min,
                                              env.procurement_max, float_tie_up)
    /\ UNCHANGED << process_vars, legacy_vars, comp_cache, file_vars, cache_vars,
                    pc, ctx, xgb, qnet, model_price, source, tried, resp >>

ForecastInit ==
    /\ env \in ProcurementEnvs
    /\ str_hash = SeedA
    /\ float_tie_up \in BOOLEAN
    /\ xgb_file = NoXgbFile
    /\ dqn_file = NoDqnFile
    /\ comp_cache = NoCompCache
    /\ xgb_model = NoXgb
    /\ dqn_state = NoDqn
    /\ InitThreads
    /\ InitLegacyIdle
    /\ InitForecastIdle

ForecastNext == DemandForecast

SpecForecast == ForecastInit /\ [][ForecastNext]_vars

(***************************************************************************)
(* The legacy endpoint /ml/pricing/optimize                                *)
(***************************************************************************)
\* pricing_optimize: recommend_price(..., ab_bucket=(req.abBucket or "A"))
PricingOptimize ==
    /\ \E req \in LegacyRequests :
         LET loaded == LoadModel(legacy_model)
         IN  /\ legacy_req' = req
             /\ legacy_model' = loaded
             /\ legacy_resp' =
                   RecommendPrice(req.base_price, req.competitor_price,
                                  req.demand_index, req.stock_level,
                                  IF req.ab_bucket = "" THEN "A" ELSE req.ab_bucket,
                                  loaded.cached, env.max_discount, env.ab_enabled,
                                  float_tie_up)
    /\ UNCHANGED << process_vars, forecast_vars, comp_cache, file_vars, cache_vars,
                    pc, ctx, xgb, qnet, model_price, source, tried, resp >>

LegacyInit ==
    /\ env \in {DefaultEnv, NoAbEnv}
    /\ str_hash = SeedA
    /\ float_tie_up \in BOOLEAN
    /\ xgb_file = NoXgbFile
    /\ dqn_file = NoDqnFile
    /\ comp_cache = NoCompCache
    /\ xgb_model = NoXgb
    /\ dqn_state = NoDqn
    /\ InitThreads
    /\ legacy_model \in
          {NoLegacyModel} \cup { LegacyModel(o, NoneQ) : o \in LegacyPredictions }
    /\ legacy_req = NoLegacyReq
    /\ legacy_resp = NoLegacyResp
    /\ InitForecastIdle

LegacyNext == PricingOptimize

SpecLegacy == LegacyInit /\ [][LegacyNext]_vars

(***************************************************************************)
(* Properties                                                              *)
(***************************************************************************)

\* C1: on every path (model or search, nudged or not, bucket A or B) and for
\* every context with unit cost >= 0 and grade A, B or C, the returned
\* recommended_price is at least
\* max(basePrice*(1-maxDiscount), unitCost*(1+minMargin), 0.1).
C1_FloorInvariant ==
    \A t \in Threads :
        (pc[t] = "done" /\ ctx[t].grade \in {"A", "B", "C"})
            => QLe(ctx[t].min_allowed_price, resp[t].recommended_price)

\* C2 as stated: the recommended price never exceeds the largest of the five
\* clamped candidates.
C2_Ceiling ==
    \A t \in Threads :
        pc[t] = "done"
            => QLe(resp[t].recommended_price, MaxOf(ctx[t].candidates))

\* C2: the price before the final rounding never exceeds the largest of the
\* five clamped candidates on any path, and the recommended price, its
\* rounding to two decimals, exceeds that candidate by at most 0.005.
C2_CeilingUpToRounding ==
    \A t \in Threads :
        pc[t] = "done"
            => /\ QLe(resp[t].selected, MaxOf(ctx[t].candidates))
               /\ QLe(resp[t].best_price, MaxOf(ctx[t].candidates))
               /\ QLe(resp[t].final, MaxOf(ctx[t].candidates))
               /\ QLe(QSub(resp[t].recommended_price, MaxOf(ctx[t].candidates)),
                      Q(5, 1000))

\* a response whose price was rounded up past the largest candidate
C2_Witness ==
    \E t \in Threads :
        /\ pc[t] = "done"
        /\ QLe(resp[t].final, MaxOf(ctx[t].candidates))
        /\ QLt(MaxOf(ctx[t].candidates), resp[t].recommended_price)

\* C3: whatever data is missing (no usable regressor or policy artifact, no
\* answer from the competitor feed, no competitor file entry, product not in
\* the catalog), the handler completes without an error and returns a
\* decision whose price lies within [floor, max(candidates)].
C3_MissingData ==
    \A t \in Threads :
        /\ pc[t] # Raised
        /\ (/\ pc[t] = "done"
            /\ xgb_model = NoXgb
            /\ dqn_state = NoDqn
            /\ ctx[t].competitor_source = "fallback")
               => /\ resp[t] # NoDecision
                  /\ ~resp[t].used_model
                  /\ QLe(ctx[t].min_allowed_price, resp[t].recommended_price)
                  /\ QLe(resp[t].recommended_price, MaxOf(ctx[t].candidates))

\* C4: within one request the regressor is tried first; the policy is
\* consulted only when the regressor gave no price; the search runs if and
\* only if neither strategy gave a price; a price the regressor predicted
\* is what the handler decides on.
C4_StrategyOrder ==
    \A t \in Threads :
        /\ tried[t] \in { << >>, << "xgb" >>, << "xgb", "dqn" >>,
                          << "xgb", "dqn", "search" >> }
        /\ Len(tried[t]) >= 2 => source[t] # "xgb"
        /\ Len(tried[t]) >= 2 =>
              (xgb[t] = NoXgb \/ xgb[t].kind # "ok")
        /\ source[t] = "xgb" => (tried[t] = << "xgb" >> /\ model_price[t] = xgb[t].out)
        /\ source[t] = "dqn" => tried[t] = << "xgb", "dqn" >>
        /\ pc[t] = "done" =>
              /\ (Len(tried[t]) = 3) <=> (source[t] = "none")
              /\ resp[t].used_model <=> (source[t] # "none")
              /\ source[t] # "none" =>
                    resp[t].selected =
                        QMin(MaxOf(ctx[t].candidates),
                             QMax(model_price[t], ctx[t].min_allowed_price))

\* a request where the regressor's prediction failed and the policy priced it
C4_Witness ==
    \E t \in Threads :
        /\ pc[t] = "done"
        /\ xgb[t].kind = "bad"
        /\ source[t] = "dqn"
        /\ resp[t].used_model

\* C5: a missing artifact, a load that raises and a prediction that raises
\* are all absorbed: predict_with_models never raises to its caller, goes on
\* to the next strategy, and returns None only after both strategies were
\* consulted and gave nothing.
C5_FailuresAbsorbed ==
    \A t \in Threads :
        /\ pc[t] # Raised
        /\ (pc[t] = "decide" /\ IsNone(model_price[t]))
              => (tried[t] = << "xgb", "dqn" >> /\ source[t] = "none")
        /\ (pc[t] = "decide" /\ ~IsNone(model_price[t]))
              => source[t] \in {"xgb", "dqn"}

\* predict_with_models returned None after the regressor's prediction raised
\* and the policy's inference raised
C5_Witness ==
    \E t \in Threads :
        /\ pc[t] = "decide"
        /\ IsNone(model_price[t])
        /\ xgb[t].kind = "bad"
        /\ qnet[t].kind = "bad"

\* C6: once _xgb_model or _dqn_state holds a model, its value never changes
\* again, whatever the interleaving of requests and training runs.
C6_CacheNeverChanges ==
    [][ /\ xgb_model # NoXgb => xgb_model' = xgb_model
        /\ dqn_state # NoDqn => dqn_state' = dqn_state ]_vars

\* C7: when requests race to fill the empty cache, each gets None or a fully
\* initialised model: a network reaches the cache or a prediction only with
\* its weights loaded and in eval mode, and a regressor only as a completely
\* read object.
C7_NoPartialModel ==
    /\ dqn_state # NoDqn => (dqn_state.weights /\ dqn_state.eval)
    /\ xgb_model # NoXgb => xgb_model.kind \in {"ok", "bad"}
    /\ \A t \in Threads :
          /\ pc[t] = "dqn_predict" => (qnet[t].weights /\ qnet[t].eval)
          /\ pc[t] = "xgb_predict" => xgb[t].kind \in {"ok", "bad"}

\* both threads found the policy cache empty; one has filled it and predicts
\* while the other, holding its own loaded network, is about to fill it again
C7_Witness ==
    /\ pc[1] = "dqn_assign"
    /\ pc[2] = "dqn_predict"
    /\ dqn_state # NoDqn
    /\ qnet[1].weights /\ qnet[1].eval

\* C8: a model price is accepted only after the clamp, so for every model
\* output (huge, zero or negative) the accepted price lies in
\* [minAllowedPrice, max(candidates)], and an output already inside that
\* range is accepted unchanged.
C8_ModelPriceClamped ==
    \A t \in Threads :
        (pc[t] = "done" /\ resp[t].used_model)
            => /\ QLe(ctx[t].min_allowed_price, resp[t].selected)
               /\ QLe(resp[t].selected, MaxOf(ctx[t].candidates))
               /\ QLt(MaxOf(ctx[t].candidates), model_price[t])
                     => resp[t].selected = MaxOf(ctx[t].candidates)
               /\ QLt(model_price[t], ctx[t].min_allowed_price)
                     => resp[t].selected = ctx[t].min_allowed_price
               /\ (/\ QLe(ctx[t].min_allowed_price, model_price[t])
                   /\ QLe(model_price[t], MaxOf(ctx[t].candidates)))
                     => resp[t].selected = model_price[t]

\* a regressor output far above the richest candidate was cut down to it
C8_Witness ==
    \E t \in Threads :
        /\ pc[t] = "done"
        /\ source[t] = "xgb"
        /\ model_price[t] = QInt(1000)
        /\ resp[t].selected = MaxOf(ctx[t].candidates)

\* C9: the candidate list has exactly five entries, the i-th being
\* max(basePrice*(1+step_i), floor) for steps -10%, -5%, 0, +5%, +10% with
\* floor = max(basePrice*(1-maxDiscount), unitCost*(1+minMargin), 0.1); no
\* entry is below the floor, the list is non-decreasing, duplicates are kept.
C9_Candidates ==
    \A t \in Threads :
        ctx[t] # NoContext =>
            LET c     == ctx[t]
                floor == QMax(QMax(QMul(c.base_price, QSub(QInt(1), env.max_discount)),
                                   QMul(c.unit_cost, QAdd(QInt(1), env.min_margin))),
                              Q(1, 10))
                mult  == << Q(90, 100), Q(95, 100), QInt(1), Q(105, 100), Q(110, 100) >>
            IN  /\ Len(c.candidates) = 5
                /\ c.min_allowed_price = floor
                /\ \A i \in 1..5 :
                      /\ c.candidates[i] = QMax(QMul(c.base_price, mult[i]), floor)
                      /\ QLe(floor, c.candidates[i])
                /\ \A i \in 1..4 : QLe(c.candidates[i], c.candidates[i + 1])

\* a context whose two lowest raw candidates were both lifted to the floor
\* and kept as duplicates
C9_Witness ==
    \E t \in Threads :
        /\ ctx[t] # NoContext
        /\ ctx[t].candidates[1] = ctx[t].min_allowed_price
        /\ ctx[t].candidates[2] = ctx[t].candidates[1]
        /\ QLt(ctx[t].candidates[2], ctx[t].candidates[5])

\* C10: the search returns the first candidate, in generation order, that
\* attains the maximum reward: no candidate has a greater reward than the
\* selected one, and every earlier candidate has a strictly smaller one.
C10_FirstMaximum ==
    \A t \in Threads :
        (pc[t] = "done" /\ ~resp[t].used_model) =>
            LET c == ctx[t]
            IN  \E k \in 1..Len(c.candidates) :
                   /\ resp[t].selected = c.candidates[k]
                   /\ resp[t].best_reward = Reward(c.candidates[k], c)
                   /\ \A j \in 1..Len(c.candidates) :
                         QLe(Reward(c.candidates[j], c), Reward(c.candidates[k], c))
                   /\ \A j \in 1..(k - 1) :
                         QLt(Reward(c.candidates[j], c), Reward(c.candidates[k], c))

\* a search where a later, different candidate ties the selected one
C10_Witness ==
    \E t \in Threads :
        /\ pc[t] = "done"
        /\ ~resp[t].used_model
        /\ \E j \in 1..Len(ctx[t].candidates) :
              /\ ctx[t].candidates[j] # resp[t].selected
              /\ QLt(resp[t].selected, ctx[t].candidates[j])
              /\ Reward(ctx[t].candidates[j], ctx[t]) = resp[t].best_reward

\* C11: the reward the endpoint evaluates for a price p, on the model branch
\* and in the search loop alike, is revenue - wasteCost + satisfactionBonus
\* with elasticity = 0.1*(competitorPrice-p)/basePrice, demandAdjusted =
\* max(0, expectedDemand*(1+elasticity)), sold = min(inventory,
\* demandAdjusted), revenue = sold*p, wasteCost = max(0, inventory-sold) *
\* unitCost * f (f = 0.2 above 48 hours, 0.5 above 24 up to 48, 0.8
\* otherwise), satisfactionBonus = 0.05*revenue iff
\* |p-competitorPrice|/basePrice < 0.03; and 0 <= sold <= inventory,
\* wasteCost >= 0.
C11_RewardModel ==
    \A t \in Threads :
        pc[t] = "done" =>
            LET c == ctx[t]
                p == IF resp[t].used_model THEN resp[t].best_price ELSE resp[t].selected
                elasticity == QDiv(QMul(Q(1, 10), QSub(c.competitor_price, p)), c.base_price)
                demandAdjusted ==
                    QMax(QInt(0), QAdd(c.expected_demand, QMul(c.expected_demand, elasticity)))
                sold == QMin(QInt(c.inventory), demandAdjusted)
                revenue == QMul(sold, p)
                f == IF c.expiry_hours > 48 THEN Q(1, 5)
                     ELSE IF c.expiry_hours > 24 /\ c.expiry_hours <= 48 THEN Q(1, 2)
                     ELSE Q(4, 5)
                wasteCost == QMul(QMax(QInt(0), QSub(QInt(c.inventory), sold)),
                                  QMul(c.unit_cost, f))
                near == QLt(QAbs(QSub(p, c.competitor_price)), QMul(Q(3, 100), c.base_price))
                satisfactionBonus == IF near THEN QMul(Q(1, 20), revenue) ELSE QInt(0)
            IN  /\ resp[t].best_reward = QAdd(QSub(revenue, wasteCost), satisfactionBonus)
                /\ QLe(QInt(0), sold)
                /\ QLe(sold, QInt(c.inventory))
                /\ QLe(QInt(0), wasteCost)

\* a request at the 48-hour boundary whose reward has unsold stock to waste
\* and earns the satisfaction bonus
C11_Witness ==
    \E t \in Threads :
        /\ pc[t] = "done"
        /\ ctx[t].expiry_hours = 48
        /\ IsPos(ctx[t].unit_cost)
        /\ QLt(ctx[t].expected_demand, QInt(ctx[t].inventory))
        /\ IsPos(ctx[t].expected_demand)
        /\ QLt(QAbs(QSub(resp[t].best_price, ctx[t].competitor_price)),
               QMul(Q(3, 100), ctx[t].base_price))

C13_CompetitorAdjustment ==
    \A t \in Threads :
        pc[t] = "done" =>
            LET c     == ctx[t]
                price == resp[t].selected
                comp  == c.competitor_price
                ratio == QDiv(price, comp)
                case1 == /\ QLt(QInt(0), comp)
                         /\ QLt(Q(105, 100), ratio)
                         /\ (c.inventory > 30 \/ c.expiry_hours <= 24)
                case2 == /\ QLt(QInt(0), comp)
                         /\ ~case1
                         /\ QLt(ratio, Q(95, 100))
                         /\ c.inventory < 10
                clamp(x) == QMax(c.min_allowed_price, QMin(MaxOf(c.candidates), x))
                toward(w) == clamp(QAdd(price, QMul(w, QSub(comp, price))))
            IN  /\ resp[t].competitor_adjusted <=> (case1 \/ case2)
                /\ case1 => resp[t].best_price = toward(Q(3, 10))
                /\ case2 => resp[t].best_price = toward(Q(2, 10))

\* a model price well above the competitor, nudged down under inventory
\* pressure alone (more than 30 units, more than 24 hours left)
C13_Witness ==
    \E t \in Threads :
        /\ pc[t] = "done"
        /\ resp[t].used_model
        /\ resp[t].competitor_adjusted
        /\ ctx[t].inventory > 30
        /\ ctx[t].expiry_hours > 24
        /\ QLt(resp[t].best_price, resp[t].selected)

\* C14: when neither adjustment condition holds the selected price is left
\* unchanged and competitorAdjusted stays false; and for a competitor price
\* of zero or below the adjustment step is a no-op that divides by nothing.
C14_NoAdjustment ==
    \A t \in Threads :
        pc[t] = "done" =>
            LET c     == ctx[t]
                price == resp[t].selected
                ratio == QDiv(price, c.competitor_price)
                high  == QLt(Q(105, 100), ratio) /\ (c.inventory > 30 \/ c.expiry_hours <= 24)
                low   == QLt(ratio, Q(95, 100)) /\ c.inventory < 10
                unchanged == [price |-> price, adjusted |-> FALSE]
            IN  /\ (~high /\ ~low) =>
                      (resp[t].best_price = price /\ ~resp[t].competitor_adjusted)
                /\ \A z \in {QInt(0), QInt(-1)} :
                      CompetitorAdjust(price, [c EXCEPT !.competitor_price = z]) = unchanged

\* a price more than 5% above the competitor that stays as it is: 30 units
\* or fewer in stock and more than 24 hours to expiry
C14_Witness ==
    \E t \in Threads :
        /\ pc[t] = "done"
        /\ QLt(QMul(Q(105, 100), ctx[t].competitor_price), resp[t].selected)
        /\ ctx[t].inventory = 30
        /\ ctx[t].expiry_hours > 24
        /\ resp[t].best_price = resp[t].selected
        /\ ~resp[t].competitor_adjusted

\* C15: the reason is chosen by strict priority: a 'Competitor-adjusted ...'
\* reason whenever the competitor adjustment fired (whatever the model use
\* or the price), else 'Model-driven price' if a learned model supplied the
\* price, else 'Expiry-driven discount' if the final price is below the base
\* price, else 'Demand/margin-driven markup'; every response carries exactly
\* one of these reasons.
C15_ReasonPriority ==
    \A t \in Threads :
        pc[t] = "done" =>
            LET r       == resp[t].price_adjustment_reason
                adj     == resp[t].competitor_adjusted
                learned == source[t] \in {"xgb", "dqn"}
                below   == QLt(resp[t].recommended_price, ctx[t].base_price)
            IN  /\ r \in { "Competitor-adjusted model price",
                           "Competitor-adjusted heuristic price",
                           "Model-driven price", "Expiry-driven discount",
                           "Demand/margin-driven markup" }
                /\ adj => r = (IF learned THEN "Competitor-adjusted model price"
                                          ELSE "Competitor-adjusted heuristic price")
                /\ (~adj /\ learned) => r = "Model-driven price"
                /\ (~adj /\ ~learned /\ below) => r = "Expiry-driven discount"
                /\ (~adj /\ ~learned /\ ~below) => r = "Demand/margin-driven markup"

\* a model-priced, competitor-adjusted response below the base price: the
\* competitor adjustment names the reason
C15_Witness ==
    \E t \in Threads :
        /\ pc[t] = "done"
        /\ source[t] = "xgb"
        /\ resp[t].competitor_adjusted
        /\ QLt(resp[t].recommended_price, ctx[t].base_price)
        /\ resp[t].price_adjustment_reason = "Competitor-adjusted model price"

\* C16: within one process the A/B bucket is a function of the product id
\* alone: two requests for the same product get the same bucket, whatever
\* their inventory, grade, expiry, competitor price, the models available
\* when they were served, and their order.
C16_BucketByProduct ==
    \A t1, t2 \in Threads :
        (/\ pc[t1] = "done"
         /\ pc[t2] = "done"
         /\ ctx[t1].product_id = ctx[t2].product_id)
            => resp[t1].bucket = resp[t2].bucket

\* two responses for one product in bucket B that differ in inventory, grade,
\* expiry and price
C16_Witness ==
    /\ pc[1] = "done"
    /\ pc[2] = "done"
    /\ ctx[1].product_id = ctx[2].product_id
    /\ ctx[1].inventory # ctx[2].inventory
    /\ ctx[1].grade # ctx[2].grade
    /\ ctx[1].expiry_hours # ctx[2].expiry_hours
    /\ resp[1].recommended_price # resp[2].recommended_price
    /\ resp[1].bucket = "B"
    /\ resp[2].bucket = "B"

\* C17: with A/B enabled and the product in bucket B the final price is the
\* post-adjustment price times 0.98; in bucket A it is the post-adjustment
\* price; with the toggle disabled every product is in bucket A and the
\* final price equals the post-adjustment price.
C17_AbPerturbation ==
    \A t \in Threads :
        pc[t] = "done" =>
            /\ resp[t].bucket \in {"A", "B"}
            /\ resp[t].bucket = "B" =>
                  /\ env.ab_enabled
                  /\ QMul(resp[t].final, QInt(100)) = QMul(resp[t].best_price, QInt(98))
            /\ resp[t].bucket = "A" => resp[t].final = resp[t].best_price
            /\ ~env.ab_enabled =>
                  (resp[t].bucket = "A" /\ resp[t].final = resp[t].best_price)
            /\ (env.ab_enabled /\ str_hash[ctx[t].product_id] % 2 = 0)
                  => resp[t].bucket = "B"

\* the toggle is off and a product whose hash is even is priced in bucket A
C17_Witness ==
    \E t \in Threads :
        /\ pc[t] = "done"
        /\ ~env.ab_enabled
        /\ str_hash[ctx[t].product_id] % 2 = 0
        /\ resp[t].bucket = "A"
        /\ resp[t].final = resp[t].best_price

\* C18 as stated: for every unit cost >= 0, zero included, and every grade
\* A, B or C the base price equals max(unitCost*gradeMarkup, unitCost*(1+minMargin)).
C18_BasePriceAsStated ==
    \A t \in Threads :
        ctx[t] # NoContext =>
            LET c == ctx[t]
                gradeMarkup == CASE c.grade = "A" -> Q(2, 1)
                                 [] c.grade = "B" -> Q(8, 5)
                                 [] c.grade = "C" -> Q(13, 10)
            IN  c.grade \in {"A", "B", "C"} =>
                    c.base_price = QMax(QMul(c.unit_cost, gradeMarkup),
                                        QMul(c.unit_cost, QAdd(QInt(1), env.min_margin)))

\* C18: for every unit cost > 0 and every grade A, B or C the base price equals
\* max(unitCost*gradeMarkup, unitCost*(1+minMargin)); for a unit cost of 0
\* (the default when the catalog has no entry) the base price is 1.0.
C18_BasePrice ==
    \A t \in Threads :
        ctx[t] # NoContext =>
            LET c == ctx[t]
                gradeMarkup == CASE c.grade = "A" -> Q(2, 1)
                                 [] c.grade = "B" -> Q(8, 5)
                                 [] c.grade = "C" -> Q(13, 10)
            IN  /\ QLe(QInt(0), c.unit_cost)
                /\ (QLt(QInt(0), c.unit_cost) /\ c.grade \in {"A", "B", "C"}) =>
                      c.base_price = QMax(QMul(c.unit_cost, gradeMarkup),
                                          QMul(c.unit_cost, QAdd(QInt(1), env.min_margin)))
                /\ c.unit_cost = QInt(0) => c.base_price = QInt(1)

\* a product without a catalog entry: unit cost 0, base price 1.0
C18_Witness ==
    \E t \in Threads :
        /\ ctx[t] # NoContext
        /\ ctx[t].unit_cost = QInt(0)
        /\ ctx[t].base_price = QInt(1)

\* C19: for a grade outside {A, B, C} every grade-dependent factor of the
\* pricing decision takes the grade-B value: markup 1.6, demand-quality
\* multiplier 0.85, regressor grade ordinal 1, policy-state quality 0.85.
C19_UnknownGradeAsB ==
    \A t \in Threads :
        (ctx[t] # NoContext /\ ctx[t].grade \notin {"A", "B", "C"}) =>
            LET c  == ctx[t]
                ef == IF c.expiry_hours > 48 THEN QInt(1)
                      ELSE IF c.expiry_hours > 24 THEN Q(7, 10) ELSE Q(1, 2)
            IN  /\ QLt(QInt(0), c.unit_cost) =>
                      c.base_price = QMax(QMul(c.unit_cost, Q(16, 10)),
                                          QMul(c.unit_cost, QAdd(QInt(1), env.min_margin)))
                /\ c.expected_demand = QMul(QMul(c.demand_baseline, Q(85, 100)), ef)
                /\ pc[t] = "xgb_predict" => XgbFeatures(c)[2] = QInt(1)
                /\ pc[t] = "dqn_predict" => DqnState(c)[3] = Q(85, 100)

\* C20 as stated: the reported expected demand is demandBaseline *
\* qualityFactor * expiryFactor rounded to 2 decimals, independent of the
\* recommended price and of the competitor price.
C20_DemandAsStated ==
    \A t \in Threads :
        pc[t] = "done" =>
            LET c  == ctx[t]
                qf == CASE c.grade = "A" -> QInt(1)
                        [] c.grade = "C" -> Q(7, 10)
                        [] OTHER         -> Q(85, 100)
                ef == IF c.expiry_hours > 48 THEN QInt(1)
                      ELSE IF c.expiry_hours > 24 /\ c.expiry_hours <= 48 THEN Q(7, 10)
                      ELSE Q(1, 2)
                d  == QMul(QMul(c.demand_baseline, qf), ef)
            IN  resp[t].expected_demand \in {Round2(d, TRUE), Round2(d, FALSE)}

\* C20: the reported expected demand is the demand at the recommended
\* price, max(0, D*(1 + 0.1*(competitorPrice-recommendedPrice)/basePrice))
\* rounded to 2 decimals, with D = demandBaseline * qualityFactor *
\* expiryFactor and expiryFactor = 1.0 above 48 hours, 0.7 above 24 up to
\* 48, 0.5 otherwise; it depends on the recommended and competitor prices.
C20_ReportedDemand ==
    \A t \in Threads :
        pc[t] = "done" =>
            LET c  == ctx[t]
                qf == CASE c.grade = "A" -> QInt(1)
                        [] c.grade = "C" -> Q(7, 10)
                        [] OTHER         -> Q(85, 100)
                ef == IF c.expiry_hours > 48 THEN QInt(1)
                      ELSE IF c.expiry_hours > 24 /\ c.expiry_hours <= 48 THEN Q(7, 10)
                      ELSE Q(1, 2)
                d  == QMul(QMul(c.demand_baseline, qf), ef)
                e  == QDiv(QMul(Q(1, 10),
                                QSub(c.competitor_price, resp[t].recommended_price)),
                           c.base_price)
                out == QMax(QInt(0), QAdd(d, QMul(d, e)))
            IN  /\ c.expected_demand = d
                /\ resp[t].expected_demand \in {Round2(out, TRUE), Round2(out, FALSE)}

\* the worked scenario's context answered with a demand below the 10 units
\* of demandBaseline * qualityFactor * expiryFactor
C20_Witness ==
    \E t \in Threads :
        /\ pc[t] = "done"
        /\ ctx[t].expected_demand = QInt(10)
        /\ ctx[t].competitor_price = Q(41, 10)
        /\ QLt(resp[t].expected_demand, QInt(10))

\* C21: revenueImpact equals bestReward - baselineRevenue rounded to 2
\* decimals, where baselineRevenue = min(inventory, expectedDemand) * basePrice
\* and bestReward is the reward of the price the model selector chose (the
\* clamped model price or the searched candidate, before the competitor
\* adjustment).
C21_RevenueImpact ==
    \A t \in Threads :
        pc[t] = "done" =>
            LET c == ctx[t]
                baselineRevenue == QMul(QMin(QInt(c.inventory), c.expected_demand),
                                        c.base_price)
                bestReward == Reward(resp[t].selected, c)
                impact == QSub(bestReward, baselineRevenue)
            IN  resp[t].revenue_impact \in {Round2(impact, TRUE), Round2(impact, FALSE)}

C24_WorkedScenario ==
    \A t \in Threads :
        (/\ pc[t] = "done"
         /\ ctx[t].unit_cost = QInt(2)
         /\ ctx[t].grade = "A"
         /\ ctx[t].inventory = 100
         /\ ctx[t].expiry_hours = 72
         /\ ctx[t].competitor_price = Q(41, 10)
         /\ ctx[t].expected_demand = QInt(10)
         /\ env.min_margin = Q(15, 100)
         /\ env.max_discount = Q(30, 100)
         /\ source[t] = "none")
            => /\ ctx[t].base_price = QInt(4)
               /\ ctx[t].min_allowed_price = Q(28, 10)
               /\ ctx[t].candidates =
                     << Q(36, 10), Q(38, 10), QInt(4), Q(42, 10), Q(44, 10) >>
               /\ \A i \in 1..5 :
                     ctx[t].candidates[i] = QMul(QInt(4), QAdd(QInt(1), Steps[i]))
               /\ ~resp[t].used_model
               /\ ~resp[t].competitor_adjusted
               /\ resp[t].best_price = resp[t].selected
               /\ QLe(QInt(4), resp[t].selected)
               /\ QLe(resp[t].selected, Q(42, 10))
               /\ resp[t].price_adjustment_reason =
                     (IF QLe(ctx[t].base_price, resp[t].recommended_price)
                      THEN "Demand/margin-driven markup" ELSE "Expiry-driven discount")

\* the worked scenario answered in bucket B: 4.2 selected, 4.12 recommended
C24_Witness ==
    \E t \in Threads :
        /\ pc[t] = "done"
        /\ ctx[t].unit_cost = QInt(2)
        /\ ctx[t].grade = "A"
        /\ ctx[t].inventory = 100
        /\ ctx[t].expiry_hours = 72
        /\ ctx[t].competitor_price = Q(41, 10)
        /\ ctx[t].expected_demand = QInt(10)
        /\ env.min_margin = Q(15, 100)
        /\ source[t] = "none"
        /\ resp[t].selected = Q(42, 10)
        /\ resp[t].bucket = "B"
        /\ resp[t].recommended_price = Q(412, 100)
        /\ resp[t].price_adjustment_reason = "Demand/margin-driven markup"

\* C25: the legacy optimizer respects the maximum discount: for every base
\* price, competitor price, demand index, stock level and bucket, with a model
\* or with the heuristic, the returned recommended_price is at least
\* max(0.1, base_price*(1-MAX_DISCOUNT)).
C25_LegacyMaxDiscount ==
    legacy_resp # NoLegacyResp =>
        QLe(QMax(Q(1, 10),
                 QMul(legacy_req.base_price, QSub(QInt(1), env.max_discount))),
            legacy_resp.recommended_price)

\* C26: whenever the competitor adjustment marks a decision as adjusted, the
\* price after the step is strictly closer to competitorPrice than the price
\* before it: strictly lower after a downward nudge, strictly higher after an
\* upward nudge, even after re-clamping to [minAllowedPrice, max(candidates)].
C26_NudgeMovesPrice ==
    \A t \in Threads :
        (pc[t] = "done" /\ resp[t].competitor_adjusted) =>
            LET comp   == ctx[t].competitor_price
                before == resp[t].selected
                after  == resp[t].best_price
            IN  /\ QLt(QAbs(QSub(after, comp)), QAbs(QSub(before, comp)))
                /\ QLt(comp, before) => QLt(after, before)
                /\ QLt(before, comp) => QLt(before, after)

\* C27: the model path and the search path account for revenue alike: on
\* both, the bestReward behind revenueImpact is the reward of the price after
\* the competitor adjustment (the price that is then A/B-finalised), so
\* revenueImpact is a function of that price and the context alone.
C27_SameRevenueAccounting ==
    \A t \in Threads :
        pc[t] = "done" =>
            LET c == ctx[t]
                bestReward == Reward(resp[t].best_price, c)
                baseline   == QMul(QMin(QInt(c.inventory), c.expected_demand), c.base_price)
                impact     == QSub(bestReward, baseline)
            IN  /\ resp[t].best_reward = bestReward
                /\ resp[t].revenue_impact \in {Round2(impact, TRUE), Round2(impact, FALSE)}

\* C28: in every request that reaches the pricing computation basePrice > 0
\* (1.0 when unitCost <= 0) and competitorPrice >= 0.1, whichever of its three
\* sources supplied it; so the divisors of the elasticity, the satisfaction
\* bonus and the price/competitor ratio are never zero, and the
\* competitorPrice <= 0 branch of the adjustment step is never taken.
C28_PositiveDivisors ==
    /\ \A g \in Grades, z \in {QInt(0), QInt(-1)} :
          BasePrice(z, NormGrade(g), env.min_margin) = QInt(1)
    /\ \A t \in Threads :
          ctx[t] # NoContext =>
              LET c == ctx[t]
              IN  /\ QLt(QInt(0), c.base_price)
                  /\ QLe(c.unit_cost, QInt(0)) => c.base_price = QInt(1)
                  /\ QLe(Q(1, 10), c.competitor_price)
                  /\ c.competitor_source \in {"http", "file", "fallback"}
                  /\ c.base_price.n # 0 /\ c.base_price.d # 0
                  /\ c.competitor_price.n # 0 /\ c.competitor_price.d # 0
                  /\ pc[t] \in {"decide", "done"} => IsPos(c.competitor_price)

\* a product without a catalog entry priced against a feed price below 0.1:
\* basePrice is 1.0, competitorPrice is 0.1, and the adjustment step ran
C28_Witness ==
    \E t \in Threads :
        /\ pc[t] = "done"
        /\ ctx[t].unit_cost = QInt(0)
        /\ ctx[t].base_price = QInt(1)
        /\ ctx[t].competitor_source = "http"
        /\ ctx[t].competitor_price = Q(1, 10)
        /\ resp[t].competitor_adjusted

\* C29: absence or load failure of an artifact is never cached: a request
\* that finds the cache empty checks the file again and, if the file is
\* there and loads, uses the model read from it; and once a model is cached,
\* replacing the file does not change which model later requests use: a
\* request served from the cache gets the model that every request still in
\* flight with a cached model is using.
C29_CacheFollowsFirstLoad ==
    [][ \A t \in Threads :
          /\ (pc[t] = "xgb_exists" /\ pc'[t] = "load_dqn") => xgb_file.kind = "absent"
          /\ (pc[t] = "xgb_read" /\ pc'[t] = "xgb_assign") => xgb'[t] = xgb_file
          /\ (pc[t] = "xgb_read" /\ pc'[t] = "load_dqn") => xgb_model' = xgb_model
          /\ (pc[t] = "load_xgb" /\ pc'[t] = "xgb_predict") =>
                \A u \in Threads \ {t} :
                    (pc[u] \in {"xgb_predict", "decide", "done"} /\ xgb[u] # NoXgb)
                        => xgb'[t] = xgb[u]
      ]_vars

\* C30: for every request with a budget >= 0, whatever the products, unit
\* costs, stock levels and PROCUREMENT_MIN/MAX, the returned total cost (the
\* sum of recommendedProcurement * unitCost over products with unitCost > 0)
\* is <= budget, budgetRemaining is >= 0, every recommendedProcurement is
\* >= 0, and <= PROCUREMENT_MAX whenever PROCUREMENT_MAX > 0.
C30_BudgetRespected ==
    (forecast_resp # NoForecastResp /\ ~IsNone(forecast_req.budget)) =>
        LET r == forecast_resp
        IN  /\ ~FlGt(r.total_cost, forecast_req.budget)
            /\ \/ IsPos(r.budget_remaining.q)
               \/ (r.budget_remaining.q = QInt(0) /\ r.budget_remaining.ulp >= 0)
            /\ r.total_cost.q = SumCost(r.recommendedProcurement, r.unitCost, 1)
            /\ \A i \in 1..Len(r.recommendedProcurement) :
                  /\ r.recommendedProcurement[i] >= 0
                  /\ env.procurement_max > 0
                        => r.recommendedProcurement[i] <= env.procurement_max

====
